---------------------------- MODULE Spec2Model ----------------------------
(***************************************************************************)
(* A model of beeper_todesktop.py: the maubot plugin that receives GitLab  *)
(* build webhooks, resolves an artifact URL and sends a notice to a Matrix *)
(* room.                                                                   *)
(*                                                                         *)
(* Texts (urls, messages, log traces) are sequences of string tokens; a    *)
(* token stands for a run of characters that the code never splits, except *)
(* the commit hash, whose tokens are single characters.  Python coroutines *)
(* run atomically between two awaits, so there is one action per stretch   *)
(* of code between suspension points.                                      *)
(***************************************************************************)
EXTENDS Integers, Sequences, FiniteSets, TLC

(***************************** bounds **************************************)
NumRequests == 1          \* webhook requests in one behaviour
MaxGenerated == 1         \* secrets.token_urlsafe calls in one behaviour

Requests == 1..NumRequests

(***************************** texts ***************************************)
Lit(s) == [k |-> "lit", v |-> s]
Ph(s) == [k |-> "ph", v |-> s]

RECURSIVE RStripSlash(_)
\* str.rstrip("/") on a text
RStripSlash(t) ==
    IF t # <<>> /\ t[Len(t)] = "/" THEN RStripSlash(SubSeq(t, 1, Len(t) - 1))
    ELSE t

\* yarl's URL / name: the path loses its trailing slashes, then "/" name
UrlDiv(u, name) == RStripSlash(u) \o <<"/">> \o name

\* a slice that stops one character early
PrefixShort(s, n) == SubSeq(s, 1, IF Len(s) < n - 1 THEN Len(s) ELSE n - 1)

\* python's s[:n]
Prefix(s, n) == SubSeq(s, 1, IF Len(s) < n THEN Len(s) ELSE n)

RECURSIVE FormatFrom(_, _, _)
FormatFrom(fmt, params, i) ==
    IF i > Len(fmt) THEN <<>>
    ELSE (IF fmt[i].k = "lit" THEN <<fmt[i].v>> ELSE params[fmt[i].v])
         \o FormatFrom(fmt, params, i + 1)

Placeholders(fmt) == {fmt[i].v : i \in {j \in 1..Len(fmt) : fmt[j].k = "ph"}}

\* a format that puts nothing where params has no value
StrFormatDefaulting(fmt, params) ==
    [ok |-> TRUE,
     text |-> FormatFrom(fmt, params @@ [k \in Placeholders(fmt) |-> <<>>], 1)]

\* str.format(**params): a KeyError for a placeholder that params lacks;
\* params the template does not name are ignored
StrFormat(fmt, params) ==
    IF Placeholders(fmt) \subseteq DOMAIN params
    THEN [ok |-> TRUE, text |-> FormatFrom(fmt, params, 1)]
    ELSE [ok |-> FALSE, text |-> <<>>]

(***************************** url_pattern *********************************)
\* the tokens [a-z0-9]+ can match
IdToks == {"abc123", "def456", "todesktop"}

RECURSIVE IdRunEnd(_, _)
\* the last index of the longest run of id tokens starting at i (i - 1: none)
IdRunEnd(text, i) ==
    IF i <= Len(text) /\ text[i] \in IdToks THEN IdRunEnd(text, i + 1)
    ELSE i - 1

\* what an unescaped dot of a pattern matches: one character, not a newline
Dot(tok) == Len(tok) = 1 /\ tok # "\n"

\* the end of the match of url_pattern starting at i, or 0.  The two dots
\* of the pattern are unescaped.
MatchAt(text, i) ==
    IF /\ i + 4 <= Len(text)
       /\ text[i] = "https://dl"
       /\ Dot(text[i + 1])
       /\ text[i + 2] = "todesktop"
       /\ Dot(text[i + 3])
       /\ text[i + 4] = "com/"
    THEN LET j == IdRunEnd(text, i + 5)
         IN  IF j >= i + 5 /\ j + 1 <= Len(text) /\ text[j + 1] = "/builds/"
             THEN LET e == IdRunEnd(text, j + 2)
                  IN  IF e >= j + 2 THEN e ELSE 0
             ELSE 0
    ELSE 0

\* url_pattern.search(text): the leftmost match, group(0)
UrlPatternSearch(text) ==
    LET starts == {i \in 1..Len(text) : MatchAt(text, i) # 0}
    IN  IF starts = {} THEN [found |-> FALSE, group0 |-> <<>>]
        ELSE LET s == CHOOSE i \in starts : \A j \in starts : i <= j
             IN  [found |-> TRUE, group0 |-> SubSeq(text, s, MatchAt(text, s))]


(***************************** configuration *******************************)
Placeholder == "put a random password here"

FormatA1 == <<Lit("Build "), Ph("build_name"), Lit(": "), Ph("todesktop_url")>>
FormatA2 ==
    <<Ph("build_name"), Lit(" "), Ph("commit_hash"), Lit(" "),
      Ph("commit_url"), Lit(" "), Ph("apk_url")>>
FormatA4 == <<Ph("build_name"), Lit(" "), Ph("apk_url")>>
FormatB1 == <<Lit("APK "), Ph("build_name"), Lit(" "), Ph("commit_hash")>>
FormatB2 == <<Lit("v2 "), Ph("build_name"), Lit(" "), Ph("todesktop_url")>>

\* a project without apk_path_map
NoMap == [k \in {} |-> <<>>]

\* the projects table of one configuration: project id -> project.  table
\* names the table a project object belongs to; the code never reads it.
ProjectsA ==
    (1 :> [type |-> "todesktop", build_name_map |-> [x |-> <<"X Build">>],
           message_format |-> FormatA1, apk_path_map |-> NoMap,
           table |-> "A"])
    @@ (2 :> [type |-> "android",
              build_name_map |-> [x |-> <<"App">>, y |-> <<"Beta">>],
              message_format |-> FormatA2,
              apk_path_map |-> [x |-> <<"app/build/outputs/app-release.apk">>],
              table |-> "A"])
    @@ (3 :> [type |-> "ios", build_name_map |-> [x |-> <<"Phone">>],
              message_format |-> FormatA1, apk_path_map |-> NoMap,
              table |-> "A"])
    @@ (4 :> [type |-> "todesktop", build_name_map |-> [x |-> <<"Desk">>],
              message_format |-> FormatA4, apk_path_map |-> NoMap,
              table |-> "A"])

\* a later edit of the table: every field of projects 1 and 2 differs
ProjectsB ==
    (1 :> [type |-> "android",
           build_name_map |-> [x |-> <<"X v2">>, y |-> <<"Y v2">>],
           message_format |-> FormatB1,
           apk_path_map |-> [x |-> <<"v2.apk">>, y |-> <<"y2.apk">>],
           table |-> "B"])
    @@ (2 :> [type |-> "todesktop", build_name_map |-> [x |-> <<"App v2">>],
              message_format |-> FormatB2, apk_path_map |-> NoMap,
              table |-> "B"])

FileA ==
    [webhook_secret |-> "s1", gitlab_url |-> <<"https://gitlab.a">>,
     gitlab_token |-> "tokA", projects |-> ProjectsA, version |-> "A"]
FileB ==
    [webhook_secret |-> "s1", gitlab_url |-> <<"https://gitlab.b", "/">>,
     gitlab_token |-> "tokB", projects |-> ProjectsB, version |-> "B"]

\* what the operator may store as the configuration; version names the
\* edit, as table does, and the code never reads it
ConfigFiles == {FileA, FileB}

\* a configuration whose gitlab_url has a port that is no number
FileC ==
    [FileB EXCEPT !.gitlab_url = <<"https://gitlab.c", ":80a">>,
                  !.gitlab_token = "tokC", !.version = "C"]

\* URL(v), line 50, returns; it raises a ValueError for a port that is no
\* number (and a TypeError for a value that is no string)
UrlConstructs(v) == \A i \in DOMAIN v : v[i] # ":80a"
\* webhook_secret as the operator first stores it: blank, the placeholder of
\* the example configuration, or a secret
InitialSecrets == {"", Placeholder, "s1"}
\* the operator's later edits of webhook_secret: left as it is, blanked, or
\* reset to the placeholder
SecretEdits == {"keep", "", Placeholder}

\* secrets.token_urlsafe(32): the n-th value generated
TokenUrlsafe(n) == "gen" \o ToString(n)

\* an update that takes only the blank secret for an unset one
do_updateBlankOnly(loaded, n) ==
    IF loaded.webhook_secret = ""
    THEN [loaded EXCEPT !.webhook_secret = TokenUrlsafe(n + 1)]
    ELSE loaded

\* Config.do_update on the loaded configuration, with n values generated
\* so far
do_update(loaded, n) ==
    IF loaded.webhook_secret = "" \/ loaded.webhook_secret = Placeholder
    THEN [loaded EXCEPT !.webhook_secret = TokenUrlsafe(n + 1)]
    ELSE loaded

(***************************** requests ************************************)
Missing == "<missing>"    \* a header or query parameter the request lacks
Homepage == <<"https://example.test/org/app">>
Sha == <<"a", "b", "c", "d", "e", "f", "1", "2", "3", "4">>

Payload(pid, status, name, home, sha) ==
    [project_id |-> pid, build_id |-> 42, build_status |-> status,
     build_name |-> name, sha |-> sha, repository |-> [homepage |-> home]]

ShortSha == <<"a", "b", "c">>

Payloads ==
    {Payload(pid, "success", n, Homepage, Sha) : pid \in {1, 2}, n \in {"x", "y"}}
    \cup {Payload(pid, "failed", "x", Homepage, Sha) : pid \in {1, 2, 9}}
    \cup {Payload(pid, "success", "x", Homepage, Sha) : pid \in {3, 4, 9}}

Payload0 == Payload(1, "success", "x", Homepage, Sha)

HttpRequest(token, room, ctype, wellformed, data) ==
    [token |-> token, room |-> room, ctype |-> ctype,
     wellformed |-> wellformed, data |-> data]

\* the requests a client may send
Inputs ==
    {HttpRequest("s1", "!a", "application/json", TRUE, d) : d \in Payloads}
    \cup {HttpRequest("s1", "!b", "application/json", TRUE,
                      Payload(1, "success", "x", Homepage \o <<"/">>, Sha)),
          HttpRequest("s1", "!b", "application/json", TRUE,
                      Payload(2, "success", "x", Homepage \o <<"/">>, ShortSha)),
          HttpRequest("s1", "!a", "text/plain", TRUE,
                      Payload(1, "failed", "x", Homepage, Sha)),
          HttpRequest("gen1", "!a", "application/json", TRUE, Payload0)}
    \cup {HttpRequest("s1", "!a", ct, FALSE, Payload0) :
             ct \in {"application/json", "text/plain"}}
    \cup {HttpRequest("s1", Missing, "application/json", wf, Payload0) :
             wf \in BOOLEAN}
    \cup {HttpRequest(t, r, IF wf THEN "application/json" ELSE "text/plain",
                      wf, Payload(IF wf THEN 1 ELSE 9, "failed", "x", Homepage, Sha)) :
             t \in {Missing, "bad"}, r \in {Missing, "!a"}, wf \in BOOLEAN}

\* the job traces the CI server may answer with
TraceUrl ==
    <<"https://dl", ".", "todesktop", ".", "com/", "abc123", "/builds/", "def456">>
Traces ==
    {<<"log", "\n">> \o TraceUrl \o <<"\n">>,
     <<"log", "\n", "done", "\n">>}

\* a text of the shape of a build url: d1 and d2 where the dots are, id1 and
\* id2 where the ids are
UrlLike(d1, d2, id1, id2) ==
    <<"https://dl", d1, "todesktop", d2, "com/">> \o id1 \o <<"/builds/">> \o id2

\* job traces of every kind: a url-like text whose dots are dots, other
\* characters or newlines and whose ids are one run, two runs, upper case or
\* empty, alone or followed by a build url
LogTexts ==
    Traces
    \cup {pre \o UrlLike(d1, d2, id1, id2) \o post :
             pre \in {<<>>, <<"log", "\n">>},
             d1 \in {".", "X", "\n"}, d2 \in {".", "X", "\n"},
             id1 \in {<<"abc123">>, <<"abc123", "def456">>, <<"ABC">>, <<>>},
             id2 \in {<<"def456">>, <<"def456", "abc123">>, <<"ABC">>, <<>>},
             post \in {<<"\n">>, <<" ">> \o TraceUrl}}


(***************************** the plugin **********************************)
VARIABLES
    cfg,         \* self.config, as the last load_and_update left it
    base_url,    \* self.base_url
    generated,   \* how many secrets token_urlsafe has generated
    input,       \* input[r]: the request r, once it has arrived
    secretAt,    \* secretAt[r]: webhook_secret when r was authenticated
    pc,          \* pc[r]: where webhook() stands for r
    hw,          \* hw[r]: where the handle_webhook task of r stands
    project,     \* project[r]: handle_webhook's local variable project
    reads,       \* reads[r]: the tables whose project fields r has read
    resolved,    \* resolved[r]: the resolvers called for r, in order
    fetches,     \* fetches[r]: the CI requests issued for r, in order
    traced,      \* traced[r]: the CI server's answers to them, in order
    sent,        \* sent[r]: the send_markdown calls made for r, in order
    sendResult,  \* sendResult[r]: how the send_markdown call ended
    logs,        \* logs[r]: what self.log.exception wrote for r
    result,      \* result[r]: how handle_webhook ended
    resp,        \* resp[r]: the HTTP response to r
    cancelled    \* cancelled[r]: the server has cancelled r's handler task

vars ==
    <<cfg, base_url, generated, input, secretAt, pc, hw, project, reads,
      resolved, fetches, traced, sent, sendResult, logs, result, resp, cancelled>>

reqVars ==
    <<input, secretAt, pc, hw, project, reads, resolved, fetches, traced, sent,
      sendResult, logs, result, resp, cancelled>>

NoProject ==
    [type |-> "", build_name_map |-> NoMap, message_format |-> <<>>,
     apk_path_map |-> NoMap, table |-> ""]
NoResult == [kind |-> "none", status |-> 0, text |-> ""]
NoResponse == [status |-> 0, text |-> ""]
NoInput == HttpRequest(Missing, Missing, "", FALSE, Payload0)

\* the attributes of the module that the name web is bound to when the
\* handlers run: line 15 rebinds the name that line 7 imported from aiohttp
\* to maubot.handlers.web, the module of the route decorators
WebAttrs ==
    {"head", "get", "post", "put", "patch", "delete", "view", "handle"}

\* raise web.<name>(text=...): the HTTP exception where web has the class,
\* an AttributeError where it has not
RaiseWeb(name, status, text) ==
    IF name \in WebAttrs
    THEN [kind |-> "http", status |-> status, text |-> text]
    ELSE [kind |-> "error", status |-> 500, text |-> "AttributeError: " \o name]

Return(text) == [kind |-> "return", status |-> 200, text |-> text]
\* an exception turned into a returned message
ErrorAsSkip(exc) == [kind |-> "return", status |-> 200, text |-> exc]

\* an exception that nothing in the plugin catches
Error(exc) == [kind |-> "error", status |-> 500, text |-> exc]

\* the response to a request whose handle_webhook ended with res: line 128
\* for a returned message; the server answers an HTTP exception with its
\* status and text, and any other exception with a plain 500
HttpOf(res) ==
    CASE res.kind = "return" ->
            [status |-> 200, text |-> "200: OK\n" \o res.text \o "\n"]
      [] res.kind = "http" -> [status |-> res.status, text |-> res.text]
      [] OTHER -> [status |-> 500, text |-> "500 Internal Server Error"]

\* an authentication that only looks for the header
AuthenticatePresence(token, secret) ==
    IF token = Missing THEN "missing" ELSE "ok"

\* lines 105-111
Authenticate(token, secret) ==
    IF token = Missing THEN "missing"
    ELSE IF token # secret THEN "mismatch"
    ELSE "ok"

\* a parser that makes something of every body
RequestJsonLenient(in) == "ok"

\* request.json(): the body is read and parsed whatever the content type
\* says; a ContentTypeError is what a client response raises, not a request
RequestJson(in) == IF in.wellformed THEN "ok" ELSE "JSONDecodeError"


\* self.webhook_handlers, lines 39-42
WebhookHandlers == {"todesktop", "android"}

\* handle_android, lines 72-76
handle_android(p, data) ==
    IF data.build_name \in DOMAIN p.apk_path_map
    THEN [ok |-> TRUE,
          params |-> [apk_url |->
              data.repository.homepage
              \o <<"/-/jobs/", ToString(data.build_id), "/artifacts/browse/">>
              \o p.apk_path_map[data.build_name]]]
    ELSE [ok |-> FALSE, params |-> NoMap]

\* the timeout of a request for which neither ClientSession() nor get() is
\* given one: the default of the library
SessionDefault == "session default"

\* the url, the headers and the timeout of the request of
\* find_todesktop_build, lines 53-55
TraceRequest(data) ==
    [url |-> UrlDiv(base_url,
                    <<"api/v4/projects/", ToString(data.project_id), "/jobs/",
                      ToString(data.build_id), "/trace">>),
     token |-> cfg.gitlab_token,
     timeout |-> SessionDefault]

\* the dict of lines 89-94 and its use by message_format.format
Compose(p, data, extra) ==
    IF data.build_name \in DOMAIN p.build_name_map
    THEN StrFormat(p.message_format,
                   extra @@
                   [build_name |-> p.build_name_map[data.build_name],
                    commit_hash |-> Prefix(data.sha, 8),
                    commit_url |->
                        UrlDiv(UrlDiv(UrlDiv(data.repository.homepage, <<"-">>),
                                      <<"commit">>), data.sha)])
    ELSE [ok |-> FALSE, text |-> <<>>]

\* the room of the send_markdown call, lines 113 and 96
RoomOf(in) == in.room

\* lines 89-96, up to the await of send_markdown: what handle_webhook does
\* with the resolver's extra_params
ComposeAndSend(r, p, extra) ==
    LET m == Compose(p, input[r].data, extra)
    IN  IF m.ok
        THEN [hw |-> "send", result |-> NoResult,
              send |-> <<[room |-> RoomOf(input[r]), text |-> m.text,
                          msgtype |-> "m.notice", config |-> cfg.version]>>]
        ELSE [hw |-> "done", result |-> Error("KeyError"), send |-> <<>>]

\* a dispatcher without the status gate
StatusGateOff(data) == FALSE

\* line 83
StatusGate(data) == data.build_status # "success"

\* lines 79-96, up to the first await: the project lookup, the status gate,
\* the call of the resolver and, for handle_android, which never suspends,
\* the composition and the call of send_markdown
StartStep(r) ==
    LET data == input[r].data
        known == data.project_id \in DOMAIN cfg.projects
        p == IF known THEN cfg.projects[data.project_id] ELSE NoProject
        base == [hw |-> "done", result |-> NoResult, project |-> p,
                 reads |-> {}, resolved |-> <<>>, fetch |-> <<>>, send |-> <<>>]
    IN  IF ~known
        THEN [base EXCEPT !.result =
                 RaiseWeb("HTTPNotFound", 404, "404: Unknown project ID")]
        ELSE IF StatusGate(data)
        THEN [base EXCEPT !.result = Return("Non-success webhook ignored")]
        ELSE IF p.type \notin WebhookHandlers
        THEN [base EXCEPT !.result = Error("KeyError"), !.reads = {p.table}]
        ELSE IF p.type = "todesktop"
        THEN [base EXCEPT !.hw = "fetch", !.reads = {p.table},
                          !.resolved = <<"handle_todesktop">>,
                          !.fetch = <<TraceRequest(data)>>]
        ELSE LET a == handle_android(p, data)
                 c == ComposeAndSend(r, p, a.params)
             IN  IF a.ok
                 THEN [base EXCEPT !.hw = c.hw, !.result = c.result,
                                   !.reads = {p.table},
                                   !.resolved = <<"handle_android">>,
                                   !.send = c.send]
                 ELSE [base EXCEPT !.result = Error("KeyError"),
                                   !.reads = {p.table},
                                   !.resolved = <<"handle_android">>]

\* a dispatcher that lets the resolver's ValueError through
SkipRaised(message) == Error(message)

\* lines 68 and 87-88: the resolver's ValueError ends handle_webhook with
\* the message of the error as its outcome
Skip(message) == Return(message)

\* a dispatcher that looks the project up again after the await
ProjectOfLive(r) ==
    IF input[r].data.project_id \in DOMAIN cfg.projects
    THEN cfg.projects[input[r].data.project_id]
    ELSE project[r]

\* the project that handle_webhook uses after the await of the resolver:
\* its local variable, bound at line 80
ProjectOf(r) == project[r]

\* lines 58, 67-69 and 87-96: the trace has arrived
TraceStep(r, text) ==
    LET m == UrlPatternSearch(text)
        c == ComposeAndSend(r, ProjectOf(r), [todesktop_url |-> m.group0])
    IN  IF m.found THEN c
        ELSE [hw |-> "done", result |-> Skip("Todesktop URL not found"),
              send |-> <<>>]


(***************************** actions *************************************)
Init ==
    /\ \E f \in ConfigFiles, e \in InitialSecrets :
          LET loaded == [f EXCEPT !.webhook_secret = e]
          IN  /\ cfg = do_update(loaded, 0)
              /\ generated = (IF cfg.webhook_secret = e THEN 0 ELSE 1)
              /\ base_url = cfg.gitlab_url
    /\ input = [r \in Requests |-> NoInput]
    /\ secretAt = [r \in Requests |-> ""]
    /\ pc = [r \in Requests |-> "idle"]
    /\ hw = [r \in Requests |-> "none"]
    /\ project = [r \in Requests |-> NoProject]
    /\ reads = [r \in Requests |-> {}]
    /\ resolved = [r \in Requests |-> <<>>]
    /\ fetches = [r \in Requests |-> <<>>]
    /\ traced = [r \in Requests |-> <<>>]
    /\ sent = [r \in Requests |-> <<>>]
    /\ sendResult = [r \in Requests |-> "none"]
    /\ logs = [r \in Requests |-> <<>>]
    /\ result = [r \in Requests |-> NoResult]
    /\ resp = [r \in Requests |-> NoResponse]
    /\ cancelled = [r \in Requests |-> FALSE]

\* on_external_config_update, lines 48-50: the operator has stored f with
\* the secret edited as e; load_and_update loads it, runs do_update and
\* stores the outcome, and base_url follows unless URL() raises
Reload(f, e) ==
    LET loaded ==
            [f EXCEPT !.webhook_secret =
                IF e = "keep" THEN cfg.webhook_secret ELSE e]
        updated == do_update(loaded, generated)
        fresh == updated.webhook_secret # loaded.webhook_secret
    IN  /\ fresh => generated < MaxGenerated
        /\ cfg' = updated
        /\ generated' = (IF fresh THEN generated + 1 ELSE generated)
        /\ base_url' = (IF UrlConstructs(updated.gitlab_url)
                        THEN updated.gitlab_url ELSE base_url)
        /\ UNCHANGED reqVars

\* webhook, lines 104-119, up to the await of request.json()
Webhook(r, in) ==
    LET auth == Authenticate(in.token, cfg.webhook_secret)
        early ==
            IF auth = "missing"
            THEN [status |-> 401,
                  text |-> "401: Unauthorized\nMissing auth token header\n"]
            ELSE IF auth = "mismatch"
            THEN [status |-> 401, text |-> "401: Unauthorized\n"]
            ELSE IF in.room = Missing
            THEN [status |-> 400,
                  text |-> "400: Bad request\nNo room specified. "
                           \o "Did you forget the ?room query parameter?\n"]
            ELSE NoResponse
    IN  /\ pc[r] = "idle"
        /\ \A q \in Requests : q < r => pc[q] # "idle"
        /\ input' = [input EXCEPT ![r] = in]
        /\ secretAt' = [secretAt EXCEPT ![r] = cfg.webhook_secret]
        /\ resp' = [resp EXCEPT ![r] = early]
        /\ pc' = [pc EXCEPT ![r] = IF early = NoResponse THEN "body" ELSE "done"]
        /\ UNCHANGED <<cfg, base_url, generated, hw, project, reads, resolved,
                       fetches, traced, sent, sendResult, logs, result, cancelled>>

\* webhook, lines 119-126: request.json() has ended; a parsed body starts
\* the handle_webhook task that asyncio.shield wraps
BodyRead(r) ==
    LET j == RequestJson(input[r])
        early ==
            CASE j = "ContentTypeError" ->
                    [status |-> 406, text |-> "406: Not Acceptable\n"]
              [] j = "JSONDecodeError" ->
                    [status |-> 400,
                     text |-> "400: Bad request\nRequest body not JSON\n"]
              [] OTHER -> NoResponse
    IN  /\ pc[r] = "body"
        /\ resp' = [resp EXCEPT ![r] = early]
        /\ pc' = [pc EXCEPT ![r] = IF j = "ok" THEN "shield" ELSE "done"]
        /\ hw' = [hw EXCEPT ![r] = IF j = "ok" THEN "start" ELSE "none"]
        /\ UNCHANGED <<cfg, base_url, generated, input, secretAt, project,
                       reads, resolved, fetches, traced, sent, sendResult, logs,
                       result, cancelled>>

\* handle_webhook from its start to its first await, or to its end
HwStart(r) ==
    LET s == StartStep(r)
    IN  /\ hw[r] = "start"
        /\ hw' = [hw EXCEPT ![r] = s.hw]
        /\ result' = [result EXCEPT ![r] = s.result]
        /\ project' = [project EXCEPT ![r] = s.project]
        /\ reads' = [reads EXCEPT ![r] = s.reads]
        /\ resolved' = [resolved EXCEPT ![r] = s.resolved]
        /\ fetches' = [fetches EXCEPT ![r] = s.fetch]
        /\ sent' = [sent EXCEPT ![r] = s.send]
        /\ UNCHANGED <<cfg, base_url, generated, input, secretAt, pc, traced,
                       sendResult, logs, resp, cancelled>>

\* a resolver that reports a failed fetch as a missing url
FetchFailureAsSkip == Skip("Todesktop URL not found")

\* lines 65-66
FetchFailure ==
    RaiseWeb("HTTPInternalServerError", 500,
             "500: Internal Server Error\nFailed to get todesktop build ID\n")

\* lines 55-57 and 63-66: the CI request failed (no connection, a status
\* of 400 or more, an undecodable body)
FetchFail(r) ==
    /\ hw[r] = "fetch"
    /\ traced' = [traced EXCEPT ![r] = Append(@, [ok |-> FALSE, text |-> <<>>])]
    /\ logs' = [logs EXCEPT ![r] = Append(@, "Error finding todesktop build ID")]
    /\ result' = [result EXCEPT ![r] = FetchFailure]
    /\ hw' = [hw EXCEPT ![r] = "done"]
    /\ UNCHANGED <<cfg, base_url, generated, input, secretAt, pc, project,
                   reads, resolved, fetches, sent, sendResult, resp,
                   cancelled>>

\* lines 55-58, 67-69, 87-96: the CI server answered with the trace text
FetchOk(r, text) ==
    LET s == TraceStep(r, text)
    IN  /\ hw[r] = "fetch"
        /\ hw' = [hw EXCEPT ![r] = s.hw]
        /\ result' = [result EXCEPT ![r] = s.result]
        /\ reads' = [reads EXCEPT ![r] =
              IF UrlPatternSearch(text).found
              THEN @ \cup {ProjectOf(r).table} ELSE @]
        /\ sent' = [sent EXCEPT ![r] = @ \o s.send]
        /\ traced' = [traced EXCEPT ![r] = Append(@, [ok |-> TRUE, text |-> text])]
        /\ UNCHANGED <<cfg, base_url, generated, input, secretAt, pc, project,
                       resolved, fetches, sendResult, logs, resp, cancelled>>

\* lines 96 and 101: send_markdown returned
SendOk(r) ==
    /\ hw[r] = "send"
    /\ sendResult' = [sendResult EXCEPT ![r] = "ok"]
    /\ result' = [result EXCEPT ![r] = Return("Notification sent")]
    /\ hw' = [hw EXCEPT ![r] = "done"]
    /\ UNCHANGED <<cfg, base_url, generated, input, secretAt, pc, project,
                   reads, resolved, fetches, traced, sent, logs, resp, cancelled>>

\* a dispatcher that sends again after a failure
AfterSendFailureRetry == "send"

\* what handle_webhook does after a failed send_markdown: lines 97-100 end it
AfterSendFailure == "done"

\* a dispatcher that logs the failure and goes on to line 101
SendFailureSwallowed == Return("Notification sent")

\* lines 99-100
SendFailure ==
    RaiseWeb("HTTPInternalServerError", 500,
             "500: Internal Server Error\n"
             \o "Failed to send notification to Matrix\n")

\* lines 96-100: send_markdown raised
SendFail(r) ==
    /\ hw[r] = "send"
    /\ sendResult' = [sendResult EXCEPT ![r] = "failed"]
    /\ logs' = [logs EXCEPT ![r] = Append(@, "Error sending message to Matrix")]
    /\ hw' = [hw EXCEPT ![r] = AfterSendFailure]
    /\ result' = [result EXCEPT ![r] =
          IF AfterSendFailure = "done" THEN SendFailure ELSE @]
    /\ sent' = [sent EXCEPT ![r] =
          IF AfterSendFailure = "done" THEN @ ELSE @ \o @]
    /\ UNCHANGED <<cfg, base_url, generated, input, secretAt, pc, project,
                   reads, resolved, fetches, traced, resp, cancelled>>

\* webhook, lines 126-128: the shielded task has ended and webhook resumes
Respond(r) ==
    /\ pc[r] = "shield"
    /\ hw[r] = "done"
    /\ resp' = [resp EXCEPT ![r] = HttpOf(result[r])]
    /\ pc' = [pc EXCEPT ![r] = "done"]
    /\ UNCHANGED <<cfg, base_url, generated, input, secretAt, hw, project,
                   reads, resolved, fetches, traced, sent, sendResult, logs, result,
                   cancelled>>

\* the states in which the handle_webhook task has work left
Active == {"start", "fetch", "send"}

\* an awaited handle_webhook without the shield: cancelled with webhook
Unshielded(h) == IF h \in Active THEN "cancelled" ELSE h

\* what the cancellation of webhook does to a handle_webhook task in state
\* h: asyncio.shield (line 126) keeps the cancellation from it
ShieldedFrom(h) == h

\* the server cancels the handler of r (the client went away) while webhook
\* is suspended at line 119 or at line 126
Cancel(r) ==
    /\ pc[r] \in {"body", "shield"}
    /\ pc' = [pc EXCEPT ![r] = "done"]
    /\ cancelled' = [cancelled EXCEPT ![r] = TRUE]
    /\ hw' = [hw EXCEPT ![r] = ShieldedFrom(hw[r])]
    /\ UNCHANGED <<cfg, base_url, generated, input, secretAt, project, reads,
                   resolved, fetches, traced, sent, sendResult, logs, result, resp>>

Next ==
    \/ \E f \in ConfigFiles, e \in SecretEdits : Reload(f, e)
    \/ \E r \in Requests, in \in Inputs : Webhook(r, in)
    \/ \E r \in Requests : BodyRead(r)
    \/ \E r \in Requests : HwStart(r)
    \/ \E r \in Requests : FetchFail(r)
    \/ \E r \in Requests, text \in Traces : FetchOk(r, text)
    \/ \E r \in Requests : SendOk(r)
    \/ \E r \in Requests : SendFail(r)
    \/ \E r \in Requests : Respond(r)
    \/ \E r \in Requests : Cancel(r)

Spec == Init /\ [][Next]_vars

\* the requests of successful builds of projects 1 and 2
ReloadInputs ==
    {HttpRequest("s1", "!a", "application/json", TRUE,
                 Payload(pid, "success", "x", Homepage, Sha)) : pid \in {1, 2}}

\* the plugin under every configuration the operator may store, a
\* gitlab_url that URL() rejects included
ReloadNext ==
    \/ \E f \in ConfigFiles \cup {FileC}, e \in SecretEdits : Reload(f, e)
    \/ \E r \in Requests, in \in ReloadInputs : Webhook(r, in)
    \/ \E r \in Requests : BodyRead(r)
    \/ \E r \in Requests : HwStart(r)
    \/ \E r \in Requests : FetchFail(r)
    \/ \E r \in Requests, text \in Traces : FetchOk(r, text)
    \/ \E r \in Requests : SendOk(r)
    \/ \E r \in Requests : SendFail(r)
    \/ \E r \in Requests : Respond(r)
    \/ \E r \in Requests : Cancel(r)

ReloadSpec == Init /\ [][ReloadNext]_vars

\* the request of a build whose trace is to be scanned
ScanInputs == {HttpRequest("s1", "!a", "application/json", TRUE, Payload0)}

\* find_todesktop_build and what follows it, over job traces of every kind
ScanNext ==
    \/ \E r \in Requests, in \in ScanInputs : Webhook(r, in)
    \/ \E r \in Requests : BodyRead(r)
    \/ \E r \in Requests : HwStart(r)
    \/ \E r \in Requests, text \in LogTexts : FetchOk(r, text)

ScanSpec == Init /\ [][ScanNext]_vars


(***************************** properties **********************************)
\* webhook has ended for r and no handle_webhook task of r is under way
Terminated(r) == pc[r] = "done" /\ hw[r] \in {"none", "done"}

\* r ended as the response o: handle_webhook, where it ran to its end, ended
\* with what the server answers as o, and the client, unless the server
\* cancelled the handler, received o
Yields(r, o) ==
    /\ hw[r] = "done" => HttpOf(result[r]) = o
    /\ pc[r] = "done" /\ ~cancelled[r] => resp[r] = o
YieldsStatus(r, status) ==
    /\ hw[r] = "done" => HttpOf(result[r]).status = status
    /\ pc[r] = "done" /\ ~cancelled[r] => resp[r].status = status

NoSideEffect(r) ==
    resolved[r] = <<>> /\ fetches[r] = <<>> /\ sent[r] = <<>>

Ok(message) == [status |-> 200, text |-> "200: OK\n" \o message \o "\n"]

\* C1: a request whose X-Gitlab-Token header is missing or differs from the
\* configured webhook_secret is answered 401 at once, whatever its body, its
\* content type and its room parameter are, and nothing else is done for it.
C1_BadTokenIs401 ==
    \A r \in Requests :
        pc[r] # "idle" /\ (input[r].token = Missing \/ input[r].token # secretAt[r])
        => /\ pc[r] = "done"
           /\ resp[r].status = 401
           /\ hw[r] = "none"
           /\ NoSideEffect(r)

\* C1: a request with a wrong token and otherwise nothing wrong was answered
C1_Witness ==
    \E r \in Requests :
        /\ pc[r] = "done"
        /\ input[r].token = "bad"
        /\ input[r].room = "!a"
        /\ input[r].wellformed
        /\ resp[r].status = 401

\* C2: a dispatched request whose project_id is not a key of the projects
\* table yields 404, and no resolver is called, no trace fetched and no
\* message sent for it.
C2_UnknownProjectIs404 ==
    \A r \in Requests :
        hw[r] = "done" /\ project[r] = NoProject
        => YieldsStatus(r, 404) /\ NoSideEffect(r)

\* C3, as claimed: a dispatched request with build_status other than
\* "success" sends nothing and yields 200, "Non-success webhook ignored".
C3_NonSuccessIgnored ==
    \A r \in Requests :
        hw[r] = "done" /\ input[r].data.build_status # "success"
        => sent[r] = <<>> /\ Yields(r, Ok("Non-success webhook ignored"))

\* C3, amended: a request with build_status other than "success" never sends
\* a message; where its project_id is a key of the projects table, it yields
\* 200, "Non-success webhook ignored", and no resolver is called for it.
C3_NonSuccessOfKnownProjectIgnored ==
    \A r \in Requests :
        pc[r] # "idle" /\ input[r].data.build_status # "success"
        => /\ sent[r] = <<>>
           /\ hw[r] \in {"none", "start", "done"}
           /\ hw[r] = "done" /\ project[r] # NoProject
              => /\ result[r] = Return("Non-success webhook ignored")
                 /\ Yields(r, Ok("Non-success webhook ignored"))
                 /\ NoSideEffect(r)

\* C3: a failed build of a known project was answered
C3_Witness ==
    \E r \in Requests :
        /\ input[r].data.build_status = "failed"
        /\ project[r] # NoProject
        /\ resp[r] = Ok("Non-success webhook ignored")

\* one step of the handle_webhook task of r
TaskStep(r) ==
    \/ HwStart(r)
    \/ FetchFail(r)
    \/ \E text \in Traces : FetchOk(r, text)
    \/ SendOk(r)
    \/ SendFail(r)

\* C4: the cancellation of webhook, at any point after the handle_webhook
\* task was started, leaves the task as it is (its position, its calls, its
\* outcome), and the task of a cancelled request can always take its next
\* step: the work goes on to the end it would have had.
C4_CancellationDoesNotAbort ==
    /\ [](\A r \in Requests : cancelled[r] /\ hw[r] \in Active => ENABLED TaskStep(r))
    /\ [][\A r \in Requests :
            ~cancelled[r] /\ cancelled'[r] /\ hw[r] # "none"
            => /\ hw'[r] = hw[r]
               /\ sent'[r] = sent[r]
               /\ fetches'[r] = fetches[r]
               /\ result'[r] = result[r]]_vars

\* C4: the notification of a cancelled request is being sent
C4_Witness ==
    \E r \in Requests :
        cancelled[r] /\ hw[r] = "send" /\ Len(sent[r]) = 1 /\ resp[r] = NoResponse

\* the resolver's extra_params for project p and request r, as the code
\* builds them
ExtraOf(p, r) ==
    IF p.type = "android"
    THEN {handle_android(p, input[r].data).params}
    ELSE {[todesktop_url |-> UrlPatternSearch(traced[r][i].text).group0] :
             i \in 1..Len(traced[r])}

\* the message and the resolver of r are those of p
AllFrom(p, r) ==
    /\ resolved[r] = <<"handle_" \o p.type>>
    /\ \E extra \in ExtraOf(p, r) :
          LET m == Compose(p, input[r].data, extra)
          IN  m.ok /\ sent[r][1].text = m.text

\* C5: whatever reloads happen while a request is in flight, the project
\* fields the request uses (type, apk_path_map, build_name_map,
\* message_format) are read from the project of one table, and what it sends
\* is what one table's project gives.
C5_OneTablePerRequest ==
    \A r \in Requests :
        /\ Cardinality(reads[r]) <= 1
        /\ sent[r] # <<>>
           => \E T \in {ProjectsA, ProjectsB} :
                 /\ input[r].data.project_id \in DOMAIN T
                 /\ AllFrom(T[input[r].data.project_id], r)

\* C5: a message composed from table A's project after a reload to table B
C5_Witness ==
    \E r \in Requests :
        /\ sent[r] # <<>>
        /\ project[r].table = "A"
        /\ reads[r] = {"A"}
        /\ sent[r][1].config = "B"


\* C6: for one request, whatever its outcome, send_markdown is called at most
\* once and the CI trace is requested at most once.
C6_AtMostOnce ==
    \A r \in Requests :
        /\ Len(sent[r]) <= 1
        /\ Len(fetches[r]) <= 1
        /\ Len(traced[r]) <= Len(fetches[r])

\* C6: a request ended after a fetched trace and a failed delivery
C6_Witness ==
    \E r \in Requests :
        /\ Terminated(r)
        /\ sendResult[r] = "failed"
        /\ Len(fetches[r]) = 1
        /\ Len(sent[r]) = 1

\* C7: "Notification sent" is the outcome only of a request whose
\* send_markdown call has returned; a request whose send_markdown call
\* raised ends as a 500, logged, and never as "Notification sent".
C7_SentOnlyAfterDelivery ==
    \A r \in Requests :
        /\ (result[r] = Return("Notification sent")
            \/ resp[r] = Ok("Notification sent"))
           => sendResult[r] = "ok" /\ Len(sent[r]) = 1
        /\ sendResult[r] = "failed"
           => /\ hw[r] = "done"
              /\ result[r].kind # "return"
              /\ YieldsStatus(r, 500)
              /\ logs[r] # <<>>
              /\ resp[r] # Ok("Notification sent")

\* C7: the client of a request whose delivery failed was answered 500
C7_Witness ==
    \E r \in Requests :
        sendResult[r] = "failed" /\ ~cancelled[r] /\ resp[r].status = 500

\* s matches the pattern of line 29 from end to end:
\* https://dl.todesktop.com/<id>/builds/<id>, each id a run of [a-z0-9] and
\* each dot any character but a newline
MatchesUrlPattern(s) ==
    /\ Len(s) >= 8
    /\ <<s[1], s[3], s[5]>> = <<"https://dl", "todesktop", "com/">>
    /\ Dot(s[2]) /\ Dot(s[4])
    /\ \E k \in 7..(Len(s) - 1) :
          /\ s[k] = "/builds/"
          /\ \A i \in (6..(k - 1)) \cup ((k + 1)..Len(s)) : s[i] \in IdToks

\* the build urls in text
UrlsIn(text) ==
    {u \in {SubSeq(text, i, j) : i \in 1..Len(text), j \in 1..Len(text)} :
        MatchesUrlPattern(u)}

\* C8: a request of a todesktop project whose trace arrived and holds no
\* build url ends with 200, "Todesktop URL not found", and sends nothing.
C8_NoUrlIsSkipped ==
    \A r \in Requests :
        /\ project[r].type = "todesktop"
        /\ traced[r] # <<>>
        /\ traced[r][1].ok
        /\ UrlsIn(traced[r][1].text) = {}
        => /\ hw[r] = "done"
           /\ result[r].kind = "return"
           /\ Yields(r, Ok("Todesktop URL not found"))
           /\ sent[r] = <<>>
           /\ logs[r] = <<>>

\* C8: the client of such a request was answered
C8_Witness ==
    \E r \in Requests :
        /\ project[r].type = "todesktop"
        /\ traced[r] # <<>>
        /\ traced[r][1].ok
        /\ UrlsIn(traced[r][1].text) = {}
        /\ resp[r] = Ok("Todesktop URL not found")

\* C9: a request whose CI trace fetch failed ends as a 500, the failure is
\* logged, nothing is sent, and the outcome is not a returned message.
C9_FetchFailureIs500 ==
    \A r \in Requests :
        traced[r] # <<>> /\ ~traced[r][1].ok
        => /\ project[r].type = "todesktop"
           /\ input[r].data.build_status = "success"
           /\ hw[r] = "done"
           /\ result[r].kind # "return"
           /\ YieldsStatus(r, 500)
           /\ logs[r] = <<"Error finding todesktop build ID">>
           /\ sent[r] = <<>>

\* C9: the client of a request whose fetch failed was answered 500
C9_Witness ==
    \E r \in Requests :
        /\ traced[r] # <<>>
        /\ ~traced[r][1].ok
        /\ ~cancelled[r]
        /\ resp[r].status = 500

(* The message of C10, written from the claim's words. *)
FirstChars(s, n) == [i \in 1..(IF Len(s) < n THEN Len(s) ELSE n) |-> s[i]]

RECURSIVE Substituted(_, _)
\* fmt with each placeholder replaced by its value
Substituted(fmt, values) ==
    IF fmt = <<>> THEN <<>>
    ELSE (IF Head(fmt).k = "ph" THEN values[Head(fmt).v] ELSE <<Head(fmt).v>>)
         \o Substituted(Tail(fmt), values)

\* u without the slashes it ends with
WithoutTrailingSlashes(u) ==
    LET keep == {i \in 1..Len(u) : \E j \in i..Len(u) : u[j] # "/"}
    IN  [i \in 1..Cardinality(keep) |-> u[i]]

\* <repository.homepage>/-/commit/<sha>
ClaimedCommitUrl(d) ==
    d.repository.homepage \o <<"/", "-", "/", "commit", "/">> \o d.sha

\* the same with the homepage's trailing slashes dropped
JoinedCommitUrl(d) ==
    WithoutTrailingSlashes(d.repository.homepage)
    \o <<"/", "-", "/", "commit", "/">> \o d.sha

\* the resolver's field: todesktop_url, a build url of the trace, or
\* apk_url, <repository.homepage>/-/jobs/<build_id>/artifacts/browse/<apk_path>
ClaimedExtra(r) ==
    IF project[r].type = "android"
    THEN {[apk_url |->
            input[r].data.repository.homepage
            \o <<"/-/jobs/", ToString(input[r].data.build_id), "/artifacts/browse/">>
            \o project[r].apk_path_map[input[r].data.build_name]]}
    ELSE {[todesktop_url |-> u] : u \in UrlsIn(traced[r][1].text)}

\* the send_markdown call of r is for the room of the room parameter, of
\* type notice, with message_format filled in, commit_url being url
SentAsClaimed(r, url) ==
    /\ sent[r][1].room = input[r].room
    /\ sent[r][1].msgtype = "m.notice"
    /\ \E extra \in ClaimedExtra(r) :
          sent[r][1].text =
              Substituted(project[r].message_format,
                          extra @@
                          [build_name |->
                              project[r].build_name_map[input[r].data.build_name],
                           commit_hash |-> FirstChars(input[r].data.sha, 8),
                           commit_url |-> url])

\* what every request with a send_markdown call has passed
Accepted(r) ==
    /\ input[r].token = secretAt[r]
    /\ input[r].room # Missing
    /\ input[r].data.build_status = "success"
    /\ project[r] # NoProject
    /\ resolved[r] # <<>>

\* C10, as claimed: the message sent is message_format with commit_url
\* replaced by <repository.homepage>/-/commit/<sha>.
C10_MessageAsClaimed ==
    \A r \in Requests :
        sent[r] # <<>> => Accepted(r) /\ SentAsClaimed(r, ClaimedCommitUrl(input[r].data))

\* C10, amended: commit_url is the homepage without its trailing slashes,
\* followed by /-/commit/<sha>; the rest is as claimed.
C10_MessageWithJoinedCommitUrl ==
    \A r \in Requests :
        sent[r] # <<>> => Accepted(r) /\ SentAsClaimed(r, JoinedCommitUrl(input[r].data))

\* C10: a message with a commit url was sent for a homepage that ends with a
\* slash and a commit hash shorter than 8 characters
C10_Witness ==
    \E r \in Requests :
        /\ sent[r] # <<>>
        /\ sendResult[r] = "ok"
        /\ "commit_url" \in Placeholders(project[r].message_format)
        /\ input[r].data.repository.homepage = Homepage \o <<"/">>
        /\ input[r].data.sha = ShortSha

\* the names of the dict of lines 89-94 for a project of p's type
Supplied(p) ==
    {"build_name", "commit_hash", "commit_url"}
    \cup (IF p.type = "android" THEN {"apk_url"} ELSE {"todesktop_url"})

\* the resolver of r has returned its extra parameters
ResolverReturned(r) ==
    \/ /\ project[r].type = "android"
       /\ input[r].data.build_name \in DOMAIN project[r].apk_path_map
    \/ /\ project[r].type = "todesktop"
       /\ traced[r] # <<>>
       /\ traced[r][1].ok
       /\ UrlsIn(traced[r][1].text) # {}

\* the configuration mismatches that handle_webhook has come upon for r
UnknownType(r) == project[r].type \notin {"todesktop", "android"}
UnmappedApk(r) ==
    /\ project[r].type = "android"
    /\ input[r].data.build_name \notin DOMAIN project[r].apk_path_map
UnmappedName(r) ==
    /\ ResolverReturned(r)
    /\ input[r].data.build_name \notin DOMAIN project[r].build_name_map
UnsuppliedPlaceholder(r) ==
    /\ ResolverReturned(r)
    /\ ~(Placeholders(project[r].message_format) \subseteq Supplied(project[r]))

\* handle_webhook has looked the project of r up, found it and passed the gate
Dispatched(r) ==
    /\ hw[r] \notin {"none", "start"}
    /\ project[r] # NoProject
    /\ input[r].data.build_status = "success"

\* C11: for a known project and a successful build, each configuration
\* mismatch that handle_webhook comes upon (a project type without a
\* resolver, a build name that apk_path_map lacks, a build name that
\* build_name_map lacks, a placeholder of message_format that is not
\* supplied) ends the request as a 500 with no message sent, never as a
\* returned message and never as a 404.
C11_MismatchIs500 ==
    \A r \in Requests :
        /\ Dispatched(r)
        /\ UnknownType(r) \/ UnmappedApk(r) \/ UnmappedName(r)
           \/ UnsuppliedPlaceholder(r)
        => /\ hw[r] = "done"
           /\ result[r].kind = "error"
           /\ YieldsStatus(r, 500)
           /\ sent[r] = <<>>

\* C11: the client of a todesktop request whose url was found and whose
\* message_format names apk_url was answered 500
C11_Witness ==
    \E r \in Requests :
        /\ Dispatched(r)
        /\ UnsuppliedPlaceholder(r)
        /\ ~UnmappedName(r)
        /\ ~cancelled[r]
        /\ resp[r].status = 500

\* s is https://dl.todesktop.com/<id>/builds/<id>, each id a run of
\* lowercase letters and digits
WellFormedUrl(s) ==
    /\ Len(s) >= 8
    /\ SubSeq(s, 1, 5) = <<"https://dl", ".", "todesktop", ".", "com/">>
    /\ \E k \in 7..(Len(s) - 1) :
          /\ s[k] = "/builds/"
          /\ \A i \in (6..(k - 1)) \cup ((k + 1)..Len(s)) : s[i] \in IdToks

\* where the well-formed urls of text start and end
WellFormedIn(text) ==
    {ij \in (1..Len(text)) \X (1..Len(text)) :
        WellFormedUrl(SubSeq(text, ij[1], ij[2]))}

\* the first well-formed urls of text
FirstWellFormed(text) ==
    {SubSeq(text, ij[1], ij[2]) :
        ij \in {w \in WellFormedIn(text) :
                   \A v \in WellFormedIn(text) : w[1] <= v[1]}}

\* C12: the scan of a trace that holds a well-formed build url gives that
\* url (the first of them) to the message, and the scan of a trace that
\* holds none gives nothing: the request ends as "Todesktop URL not found".
C12_ScannerFindsWellFormedUrl ==
    \A r \in Requests :
        traced[r] # <<>> /\ traced[r][1].ok
        => LET text == traced[r][1].text
           IN  IF FirstWellFormed(text) = {}
               THEN /\ sent[r] = <<>>
                    /\ result[r] = Return("Todesktop URL not found")
               ELSE /\ sent[r] # <<>>
                    /\ \E u \in FirstWellFormed(text) :
                          sent[r][1].text =
                              Compose(project[r], input[r].data,
                                      [todesktop_url |-> u]).text

\* the response of line 115
MissingRoom ==
    [status |-> 400,
     text |-> "400: Bad request\nNo room specified. "
              \o "Did you forget the ?room query parameter?\n"]

\* C13: the steps are checked in the order authenticate, room parameter,
\* payload parse, project lookup, status gate, resolve, and the first step
\* that fails decides the outcome: a bad token gives 401 whatever else is
\* wrong, a good token without a room gives the missing-room 400 whatever
\* the body is, a body whose content type is not JSON gives 406 (400 where
\* it is malformed as well) with no project lookup, a malformed JSON body
\* gives 400, an unknown project is not answered by the status gate and a
\* non-success build calls no resolver.
C13_FirstFailingStepDecides ==
    \A r \in Requests :
        pc[r] = "done" /\ ~cancelled[r]
        => LET in == input[r]
           IN  IF in.token = Missing \/ in.token # secretAt[r]
               THEN resp[r].status = 401 /\ hw[r] = "none"
               ELSE IF in.room = Missing
               THEN resp[r] = MissingRoom /\ hw[r] = "none"
               ELSE IF in.ctype # "application/json"
               THEN /\ resp[r].status \in (IF in.wellformed THEN {406} ELSE {400, 406})
                    /\ hw[r] = "none"
                    /\ project[r] = NoProject
               ELSE IF ~in.wellformed
               THEN resp[r].status = 400 /\ hw[r] = "none"
               ELSE /\ hw[r] # "none"
                    /\ project[r] = NoProject => result[r].kind # "return"
                    /\ in.data.build_status # "success" => resolved[r] = <<>>

\* handle_webhook has come to line 89 for r with a mapped build name
ComposeReached(r) ==
    /\ Dispatched(r)
    /\ ResolverReturned(r)
    /\ input[r].data.build_name \in DOMAIN project[r].build_name_map

\* C14, as claimed: a message is composed only where the names supplied are
\* exactly the placeholders of message_format.
C14_ComposedOnlyWithExactParams ==
    \A r \in Requests :
        sent[r] # <<>>
        => Placeholders(project[r].message_format) = Supplied(project[r])

\* C14, amended: composition succeeds exactly when every placeholder of
\* message_format is among the names supplied (build_name, commit_hash,
\* commit_url and the resolver's field); names the template does not use
\* are ignored, and a placeholder that is not supplied ends the request as
\* a 500 with nothing sent.
C14_ComposedIffPlaceholdersSupplied ==
    \A r \in Requests :
        /\ sent[r] # <<>>
           => /\ ComposeReached(r)
              /\ Placeholders(project[r].message_format) \subseteq Supplied(project[r])
        /\ ComposeReached(r)
           => IF Placeholders(project[r].message_format) \subseteq Supplied(project[r])
              THEN Len(sent[r]) = 1
              ELSE sent[r] = <<>> /\ hw[r] = "done" /\ result[r] = Error("KeyError")

\* C14: a message whose template uses two of the four names supplied was
\* delivered
C14_Witness ==
    \E r \in Requests :
        /\ sendResult[r] = "ok"
        /\ Placeholders(project[r].message_format) = {"build_name", "todesktop_url"}
        /\ Supplied(project[r]) \ Placeholders(project[r].message_format)
           = {"commit_hash", "commit_url"}

\* the fatal errors of a request
FetchFailed(r) == traced[r] # <<>> /\ ~traced[r][1].ok
SendFailed(r) == sendResult[r] = "failed"

\* C15: every fatal error of a request (a failed CI fetch, a build name
\* that apk_path_map or build_name_map lacks, a project type without a
\* resolver, a placeholder that is not supplied, a failed send) is caught
\* and logged by the plugin, once, and the request ends as a 500.
C15_FatalErrorsLoggedOnce ==
    \A r \in Requests :
        /\ Dispatched(r)
        /\ \/ FetchFailed(r) \/ SendFailed(r)
           \/ UnknownType(r) \/ UnmappedApk(r) \/ UnmappedName(r)
           \/ UnsuppliedPlaceholder(r)
        => /\ hw[r] = "done"
           /\ YieldsStatus(r, 500)
           /\ Len(logs[r]) = 1

\* C16: every CI trace request is issued with a timeout of its own, so that
\* a CI endpoint that never responds cannot hold a request for longer than
\* the plugin has chosen.
C16_FetchHasExplicitTimeout ==
    \A r \in Requests :
        \A i \in DOMAIN fetches[r] : fetches[r][i].timeout # SessionDefault

SecretIsSet == cfg.webhook_secret \notin {"", Placeholder}

TurnedAway(r) ==
    /\ pc[r] # "idle"
    /\ \/ input[r].token = Missing
       \/ input[r].token # secretAt[r]
       \/ input[r].room = Missing
       \/ ~input[r].wellformed
       \/ resp[r].status \in {400, 401, 406}

\* C18: a request that is rejected before dispatch (401, 400 or 406) has no
\* side effect in any execution: handle_webhook is never started for it, no
\* project is looked up, no resolver called, no trace fetched, no message
\* sent and nothing logged, and its answer is the rejection.
C18_RejectedHasNoSideEffect ==
    \A r \in Requests :
        TurnedAway(r)
        => /\ hw[r] = "none"
           /\ project[r] = NoProject
           /\ reads[r] = {}
           /\ NoSideEffect(r)
           /\ traced[r] = <<>> /\ logs[r] = <<>> /\ sendResult[r] = "none"
           /\ pc[r] = "done" /\ ~cancelled[r] => resp[r].status \in {400, 401, 406}

\* C18: a request with a good token, a room and a malformed body was
\* answered 400 after its body was read
C18_Witness ==
    \E r \in Requests :
        /\ pc[r] = "done"
        /\ input[r].token = secretAt[r]
        /\ input[r].room # Missing
        /\ ~input[r].wellformed
        /\ resp[r].status = 400

\* no CI trace request was issued or is under way for r
NoFetch(r) == fetches[r] = <<>> /\ traced[r] = <<>> /\ hw[r] # "fetch"

\* C19: the status gate comes before the resolver, so a request whose
\* build_status is not "success" never issues the CI trace request, whatever
\* the type of its project, and a request of an android project never
\* issues one either.
C19_NoFetchBehindGateOrForAndroid ==
    \A r \in Requests :
        /\ pc[r] # "idle" /\ input[r].data.build_status # "success" => NoFetch(r)
        /\ project[r].type = "android" => NoFetch(r)
        /\ ~NoFetch(r) => resolved[r] = <<"handle_todesktop">>

\* C19: a failed build of a todesktop project has been through
\* handle_webhook
C19_Witness ==
    \E r \in Requests :
        /\ hw[r] = "done"
        /\ input[r].data.build_status = "failed"
        /\ project[r].type = "todesktop"
        /\ NoFetch(r)

\* text starts with pre
StartsWith(text, pre) ==
    Len(pre) <= Len(text) /\ SubSeq(text, 1, Len(pre)) = pre

\* the CI request q is for the server and with the token of configuration f
FromOneVersion(q, f) ==
    /\ q.token = f.gitlab_token
    /\ StartsWith(q.url, WithoutTrailingSlashes(f.gitlab_url) \o <<"/">>)

\* C20: whatever reloads happen around a request, the url and the token of
\* each CI trace request are those of one configuration: never the url of
\* one and the token of another.
C20_UrlAndTokenOfOneVersion ==
    \A r \in Requests :
        \A i \in DOMAIN fetches[r] :
            \E f \in ConfigFiles \cup {FileC} : FromOneVersion(fetches[r][i], f)

=============================================================================
